---- MODULE Spec2Model ----
(***************************************************************************)
(* Bisection bug search (tools/bisection-search): BinarySearch,            *)
(* FilterPasses, BugSearch, Dex2OatWrapperTestable and the test            *)
(* environments' RunCommand, as a state machine.                           *)
(*                                                                         *)
(* The system under test is the part the tool does not control: for each   *)
(* cutoff of the method list (sut_methods) and of the implicated method's  *)
(* pass list (sut_passes) it fixes whether the probe at that cutoff passes; *)
(* the process run for a probe then produces any exit code and output that *)
(* score that way.  Nothing constrains these functions to be monotone.     *)
(***************************************************************************)
EXTENDS Integers, Sequences, FiniteSets, TLC

\* ------------------------------------------------------------------ bounds
MaxMethods == 4
MaxPasses == 3
MaxN == 5
MaxFilterLen == 3

\* --------------------------------------------------------- program constants
None == "None"

\* BugSearch's results and the exceptions that end it.
NoBug == << None, None >>
NoMethodsList == "FatalError: Failed to retrieve methods list."
NoPassesList == "FatalError: Failed to retrieve passes list."
OutsideCompiler == "FatalError: Testable fails with no methods compiled."
AssertionFailed == "AssertionError: Method must fail for some passes."
TransportError == "CalledProcessError"
EnvVariableUnset == "FatalError: ANDROID_HOST_OUT environmental variable not set."

MANDATORY_PASSES ==
  { "dex_cache_array_fixups_arm", "dex_cache_array_fixups_mips",
    "instruction_simplifier$before_codegen", "pc_relative_fixups_x86",
    "pc_relative_fixups_mips", "x86_memory_operand_generation" }

NON_PASSES == { "builder", "prepare_for_register_allocation", "liveness", "register" }

\* ------------------------------------------------------ environment's inputs
\* Pass names the compiler's diagnostics may show for a method: a pipeline
\* stage that is no pass, two optional passes and a mandatory one.
ScrapedPassNames == { "builder", "inliner", "dce", "pc_relative_fixups_x86" }
FilterPassNames == { "inliner", "dce", "pc_relative_fixups_x86", "pc_relative_fixups_mips" }
Outputs == { "ok", "bad" }
RetCodes == { 0, 1 }
EnvKinds == { "host", "device" }

VARIABLES
  env_kind,        \* which ITestEnv main constructed: HostTestEnv or DeviceTestEnv
  correct_output,  \* Dex2OatWrapperTestable._correct_output (None or a string)
  pc,              \* control location
  caller,          \* which method of the testable is inside RunCommand
  search,          \* which BinarySearch is running: "pure", "methods", "passes"
  start, end, mid, \* BinarySearch's locals
  test_res,        \* value returned by the last test(mid)
  pred,            \* the predicate of a BinarySearch run on its own
  all_methods, faulty_method_idx,
  all_passes, faulty_pass_idx,
  sut_methods, sut_passes,
  compiled_methods_file, passes_to_run_file,  \* contents of the two scratch files
  cmd,             \* the command being run: which switches it carries
  last_run,        \* (output, err_output, ret_code) of the last process
  executed,        \* every probe run so far, with its score
  run_calls, invalidations, commands, cache_cleared,
  filter_in, filter_out,  \* FilterPasses run on its own: its input and result
  result, error,
  proc,            \* the probe's process: not started, running, exited, killed
  returncode,      \* proc.returncode
  timer,           \* the Timer thread of _RunCommandForOutputAndLog
  timeouted,       \* _RunCommandForOutputAndLog's local
  log,             \* what was written to test_env.logfile, one entry per write
  printed          \* what main printed

vars == << env_kind, correct_output, pc, caller, search, start, end, mid, test_res,
           pred, all_methods, faulty_method_idx, all_passes, faulty_pass_idx,
           sut_methods, sut_passes, compiled_methods_file, passes_to_run_file,
           cmd, last_run, executed, run_calls, invalidations, commands,
           cache_cleared, filter_in, filter_out, result, error,
           proc, returncode, timer, timeouted, log, printed >>

\* ------------------------------------------------------------ pure functions
SeqsUpTo(S, n) == UNION { [1..k -> S] : k \in 0..n }

\* The pass lists a method's diagnostics may show: each pass named once.
ScrapedPassLists ==
  { p \in SeqsUpTo(ScrapedPassNames, MaxPasses) :
      \A i, j \in DOMAIN p : i # j => p[i] # p[j] }

RECURSIVE FilterFrom(_, _, _)
FilterFrom(passes, cutoff_idx, idx) ==
  IF idx >= Len(passes) THEN << >>
  ELSE LET opt_pass == passes[idx + 1]
           rest == FilterFrom(passes, cutoff_idx, idx + 1)
       IN IF opt_pass \in MANDATORY_PASSES \/ idx < cutoff_idx
          THEN << opt_pass >> \o rest
          ELSE rest

\* FilterPasses with the cutoff compared by idx <= cutoff_idx.
FilterPassesInclusive(passes, cutoff_idx) == FilterFrom(passes, cutoff_idx + 1, 0)

\* FilterPasses(passes, cutoff_idx); idx is Python's 0-based index.
FilterPasses(passes, cutoff_idx) == FilterFrom(passes, cutoff_idx, 0)

\* [p for p in match_passes if p not in NON_PASSES]
DropNonPasses(match_passes) == SelectSeq(match_passes, LAMBDA p : p \notin NON_PASSES)

\* all_methods[0:mid]
Prefix(s, n) == SubSeq(s, 1, n)

\* mid = (start + end) // 2
Midpoint(s, e) == (s + e) \div 2

\* A start that is set to mid itself.
RaisedStartNoProgress(m) == m

\* start = mid + 1 when test(mid) holds
RaisedStart(m) == m + 1

\* end = mid - 1, as a search over a closed range would set it.
LoweredEndClosed(m) == m - 1

\* end = mid otherwise
LoweredEnd(m) == m

\* res = ret_code == 0 or output == self._correct_output
TestResultZeroExit(run) == run.ret_code = 0 \/ run.output = correct_output

\* res = ret_code != 0 or output == self._correct_output
TestResult(run) == run.ret_code # 0 \/ run.output = correct_output

MethodName(i) == "m" \o ToString(i)
MethodList(n) == [i \in 1..n |-> MethodName(i - 1)]

\* The no-bug test taken one method early.
NoBugFoundEarly(idx, methods) == idx = Len(methods) - 1

\* The no-bug test also taken when the search found nothing below index 0.
NoBugFoundOrZero(idx, methods) == idx = Len(methods) \/ idx = 0

\* if faulty_method_idx == len(all_methods): return (None, None)
NoBugFound(idx, methods) == idx = Len(methods)

\* if faulty_method_idx == 0: raise FatalError(...)
FailsWithNoMethods(idx) == idx = 0

\* The item at Python's index idx, without the - 1 (the last item when idx is
\* the list's length - 1 is kept in range).
ItemAt(list, idx) == list[IF idx < Len(list) THEN idx + 1 ELSE idx]

\* all_methods[faulty_method_idx - 1], all_passes[faulty_pass_idx - 1]:
\* Python's index idx - 1 is the sequence's position idx.
ItemBefore(list, idx) == list[idx]

\* adb_failed tells a run whose adb invocation itself failed (no device, lost
\* connection) from one whose command ran; the triple returned does not.
NoRun == [output |-> None, err_output |-> << >>, ret_code |-> 0 - 1,
          adb_failed |-> FALSE]
NoCmd == [compiled_methods |-> FALSE, passes_to_run |-> FALSE]

\* --------------------------------------------------------------- environment
\* check_call on adb: a host environment makes no transport call; on a device
\* each adb invocation either succeeds or exits non-zero.
TransportOutcomes == IF env_kind = "device" THEN BOOLEAN ELSE { TRUE }

\* A run shows the fault when the process exits normally with an output that
\* differs from the reference.
FaultShows(run) == run.ret_code = 0 /\ run.output # correct_output

\* proc.returncode of a process ended by proc.kill (SIGKILL).
KilledCode == 0 - 9

\* What a run can return: the process's own exit code, 1 for a run found
\* timed out, or the kill's code when the timer thread was still alive.
Runs(err) == { [output |-> o, err_output |-> err, ret_code |-> r,
                adb_failed |-> FALSE] :
               o \in Outputs, r \in RetCodes \cup { KilledCode } }

\* adb shell exits non-zero with nothing on stdout when it cannot reach the
\* device; only DeviceTestEnv runs its commands through adb.
AdbFailedRuns ==
  IF env_kind = "device"
  THEN { [output |-> "", err_output |-> << >>, ret_code |-> 1, adb_failed |-> TRUE] }
  ELSE { }

\* logfile.write('Command:...') and logfile.write('Exception: ...')
CommandRecord(c) == [kind |-> "Command", cmd |-> c, error |-> None]
ExceptionRecord(e) == [kind |-> "Exception", cmd |-> NoCmd, error |-> e]

\* A write that replaces what the file held.
WrittenOver(l, rec) == << rec >>

\* logfile.write(...): the file is opened once, every write goes to its end.
Written(l, rec) == Append(l, rec)

\* Whether the system under test lets the probe at the current cutoff pass.
SutPasses == IF search = "methods" THEN sut_methods[mid] ELSE sut_passes[mid]

bsVars == << start, end, mid, test_res >>
listVars == << all_methods, faulty_method_idx, all_passes, faulty_pass_idx >>
sutVars == << sut_methods, sut_passes >>
fileVars == << compiled_methods_file, passes_to_run_file >>
countVars == << run_calls, invalidations, commands, cache_cleared >>
filterVars == << filter_in, filter_out >>
configVars == << env_kind, correct_output, pred >>
threadVars == << proc, returncode, timer, timeouted >>
mainVars == << log, printed >>

\* A DeviceTestEnv.RunCommand that goes straight to the command.
RunCommandEntryNoInvalidation(kind) == IF kind = "device" THEN "Popen" ELSE "EmptyDexCache"

\* RunCommand's first statement, in HostTestEnv and in DeviceTestEnv:
\* self._EmptyDexCache().
RunCommandEntry(kind) == "EmptyDexCache"

\* --------------------------------------------------------------------- Init
Idle ==
  /\ caller = None /\ mid = 0 /\ test_res = FALSE
  /\ all_methods = << >> /\ faulty_method_idx = 0 - 1
  /\ all_passes = << >> /\ faulty_pass_idx = 0 - 1
  /\ sut_methods = << >> /\ sut_passes = << >>
  /\ compiled_methods_file = << >> /\ passes_to_run_file = << >>
  /\ cmd = NoCmd /\ last_run = NoRun /\ executed = { }
  /\ run_calls = 0 /\ invalidations = 0 /\ commands = 0 /\ cache_cleared = FALSE
  /\ filter_out = << >>
  /\ result = << >> /\ error = None
  /\ proc = "none" /\ returncode = 0 - 1 /\ timer = "none" /\ timeouted = FALSE
  /\ log = << >> /\ printed = { }

\* BugSearch(testable) is entered with a constructed testable.
Init ==
  /\ env_kind \in EnvKinds
  /\ correct_output \in { None, "ok" }
  /\ pc = "BugSearch" /\ search = None
  /\ start = 0 /\ end = 0 /\ pred = << >>
  /\ filter_in = [passes |-> << >>, cutoff_idx |-> 0]
  /\ Idle

\* main() is entered with the arguments parsed.
InitMain ==
  /\ env_kind \in EnvKinds
  /\ correct_output \in { None, "ok" }
  /\ pc = "main" /\ search = None
  /\ start = 0 /\ end = 0 /\ pred = << >>
  /\ filter_in = [passes |-> << >>, cutoff_idx |-> 0]
  /\ Idle

\* BinarySearch(0, n, test) on its own, test an arbitrary predicate on [0, n).
InitSearch ==
  /\ env_kind = "host" /\ correct_output = None
  /\ pc = "bs_loop" /\ search = "pure"
  /\ \E n \in 0..MaxN :
       /\ start = 0 /\ end = n
       /\ pred \in [0..(n - 1) -> BOOLEAN]
  /\ filter_in = [passes |-> << >>, cutoff_idx |-> 0]
  /\ Idle

\* FilterPasses(passes, cutoff_idx) on its own.
InitFilter ==
  /\ env_kind = "host" /\ correct_output = None
  /\ pc = "FilterPasses" /\ search = None
  /\ start = 0 /\ end = 0 /\ pred = << >>
  /\ \E passes \in SeqsUpTo(FilterPassNames, MaxFilterLen) :
       \E cutoff_idx \in 0..Len(passes) :
         filter_in = [passes |-> passes, cutoff_idx |-> cutoff_idx]
  /\ Idle

\* ------------------------------------------------------------- BinarySearch
\* while start < end: mid = (start + end) // 2; if test(mid): ...
BinarySearchLoop ==
  /\ pc = "bs_loop"
  /\ IF start < end
     THEN /\ mid' = Midpoint(start, end)
          /\ pc' = "test"
     ELSE /\ pc' = "bs_done"
          /\ mid' = mid
  /\ UNCHANGED << start, end, test_res, caller, search, listVars, sutVars, fileVars,
                  cmd, last_run, executed, countVars, filterVars, configVars, threadVars, mainVars,
                  result, error >>

\* start = mid + 1 / end = mid, on the value test(mid) returned.
BinarySearchUpdate ==
  /\ pc = "bs_update"
  /\ IF test_res
     THEN start' = RaisedStart(mid) /\ end' = end
     ELSE end' = LoweredEnd(mid) /\ start' = start
  /\ pc' = "bs_loop"
  /\ last_run' = NoRun
  /\ UNCHANGED << mid, test_res, caller, search, listVars, sutVars, fileVars, cmd,
                  executed, countVars, filterVars, configVars, threadVars, mainVars, result, error >>

\* test(mid) of a BinarySearch run on its own; the call is recorded with the
\* value it returned.
TestPredicate ==
  /\ pc = "test" /\ search = "pure"
  /\ test_res' = pred[mid]
  /\ executed' = executed \cup
       { [stage |-> search, idx |-> mid, compiled_methods |-> << >>,
          run_passes |-> FALSE, passes_to_run |-> << >>, passed |-> pred[mid]] }
  /\ pc' = "bs_update"
  /\ UNCHANGED << start, end, mid, caller, search, listVars, sutVars, fileVars, cmd,
                  last_run, countVars, filterVars, configVars, threadVars, mainVars, result, error >>

\* ------------------------------------------------------------- FilterPasses
ApplyFilterPasses ==
  /\ pc = "FilterPasses"
  /\ filter_out' = FilterPasses(filter_in.passes, filter_in.cutoff_idx)
  /\ pc' = "filtered"
  /\ UNCHANGED << filter_in, bsVars, caller, search, listVars, sutVars, fileVars, cmd,
                  last_run, executed, countVars, configVars, threadVars, mainVars, result, error >>

\* ------------------------------------------------- Dex2OatWrapperTestable
\* all_methods = testable.GetAllMethods(): _PrepareCmd(verbose_compiler=True)
\* writes no file; then self._test_env.RunCommand(cmd).
CallGetAllMethods ==
  /\ pc = "BugSearch"
  /\ caller' = "GetAllMethods"
  /\ cmd' = NoCmd
  /\ run_calls' = run_calls + 1
  /\ pc' = RunCommandEntry(env_kind)
  /\ UNCHANGED << bsVars, search, listVars, sutVars, fileVars, last_run, executed,
                  invalidations, commands, cache_cleared, filterVars, configVars, threadVars, mainVars,
                  result, error >>

\* match_methods = re.findall(...); raise FatalError if not match_methods;
\* then BugSearch calls BinarySearch(0, len(all_methods), ...).
GetAllMethodsReturn ==
  /\ pc = "returned" /\ caller = "GetAllMethods"
  /\ IF last_run.err_output = << >>
     THEN /\ error' = NoMethodsList
          /\ pc' = "raised"
          /\ UNCHANGED << all_methods, start, end, search >>
     ELSE /\ all_methods' = last_run.err_output
          /\ start' = 0 /\ end' = Len(last_run.err_output)
          /\ search' = "methods"
          /\ pc' = "bs_loop"
          /\ error' = error
  /\ last_run' = NoRun
  /\ caller' = None
  /\ UNCHANGED << mid, test_res, faulty_method_idx, all_passes, faulty_pass_idx,
                  sutVars, fileVars, cmd, executed, countVars, filterVars,
                  configVars, threadVars, mainVars, result >>

\* lambda mid: testable.Test(all_methods[0:mid]): _PrepareCmd writes the method
\* list (an adb push on a device), then RunCommand.
CallTestMethods ==
  /\ pc = "test" /\ search = "methods"
  /\ \E pushed \in TransportOutcomes :
       IF pushed
       THEN /\ compiled_methods_file' = Prefix(all_methods, mid)
            /\ cmd' = [compiled_methods |-> TRUE, passes_to_run |-> FALSE]
            /\ caller' = "Test"
            /\ run_calls' = run_calls + 1
            /\ pc' = RunCommandEntry(env_kind)
            /\ error' = error
       ELSE /\ error' = TransportError
            /\ pc' = "raised"
            /\ UNCHANGED << compiled_methods_file, cmd, caller, run_calls >>
  /\ UNCHANGED << bsVars, search, listVars, sutVars, passes_to_run_file, last_run,
                  executed, invalidations, commands, cache_cleared, filterVars,
                  configVars, threadVars, mainVars, result >>

\* lambda mid: testable.Test([faulty_method], FilterPasses(all_passes, mid)):
\* _PrepareCmd writes both files, then RunCommand.
CallTestPasses ==
  /\ pc = "test" /\ search = "passes"
  /\ \E pushed_methods \in TransportOutcomes, pushed_passes \in TransportOutcomes :
       /\ compiled_methods_file' =
            IF pushed_methods THEN << ItemBefore(all_methods, faulty_method_idx) >>
            ELSE compiled_methods_file
       /\ IF pushed_methods /\ pushed_passes
          THEN /\ passes_to_run_file' = FilterPasses(all_passes, mid)
               /\ cmd' = [compiled_methods |-> TRUE, passes_to_run |-> TRUE]
               /\ caller' = "Test"
               /\ run_calls' = run_calls + 1
               /\ pc' = RunCommandEntry(env_kind)
               /\ error' = error
          ELSE /\ error' = TransportError
               /\ pc' = "raised"
               /\ UNCHANGED << passes_to_run_file, cmd, caller, run_calls >>
  /\ UNCHANGED << bsVars, search, listVars, sutVars, last_run, executed,
                  invalidations, commands, cache_cleared, filterVars, configVars, threadVars, mainVars,
                  result >>

\* (output, _, ret_code) = RunCommand(cmd); res = ...; return res
TestReturn ==
  /\ pc = "returned" /\ caller = "Test"
  /\ test_res' = TestResult(last_run)
  /\ executed' = executed \cup
       { [stage |-> search, idx |-> mid,
          compiled_methods |-> compiled_methods_file,
          run_passes |-> cmd.passes_to_run,
          passes_to_run |-> IF cmd.passes_to_run THEN passes_to_run_file ELSE << >>,
          passed |-> TestResult(last_run)] }
  /\ caller' = None
  /\ pc' = "bs_update"
  /\ UNCHANGED << start, end, mid, search, listVars, sutVars, fileVars, cmd, last_run,
                  countVars, filterVars, configVars, threadVars, mainVars, result, error >>

\* match_passes = re.findall(...); raise FatalError if not match_passes;
\* return the passes that are not NON_PASSES; then BugSearch calls
\* BinarySearch(0, len(all_passes), ...).
GetAllPassesForMethodReturn ==
  /\ pc = "returned" /\ caller = "GetAllPassesForMethod"
  /\ IF last_run.err_output = << >>
     THEN /\ error' = NoPassesList
          /\ pc' = "raised"
          /\ UNCHANGED << all_passes, start, end, search >>
     ELSE /\ all_passes' = DropNonPasses(last_run.err_output)
          /\ start' = 0 /\ end' = Len(DropNonPasses(last_run.err_output))
          /\ search' = "passes"
          /\ pc' = "bs_loop"
          /\ error' = error
  /\ last_run' = NoRun
  /\ caller' = None
  /\ UNCHANGED << mid, test_res, all_methods, faulty_method_idx, faulty_pass_idx,
                  sutVars, fileVars, cmd, executed, countVars, filterVars,
                  configVars, threadVars, mainVars, result >>

\* ------------------------------------------------------------------ ITestEnv
\* self._EmptyDexCache(): the host variant unlinks the files of each
\* architecture's cache directory; the device variant runs one adb shell
\* command per directory under check_call, which raises when adb fails.
EmptyDexCache ==
  /\ pc = "EmptyDexCache"
  /\ invalidations' = invalidations + 1
  /\ \E emptied \in TransportOutcomes :
       IF emptied
       THEN /\ cache_cleared' = TRUE
            /\ pc' = "Popen"
            /\ error' = error
       ELSE /\ cache_cleared' = cache_cleared
            /\ error' = TransportError
            /\ pc' = "raised"
  /\ UNCHANGED << bsVars, caller, search, listVars, sutVars, fileVars, cmd, last_run,
                  executed, run_calls, commands, filterVars, configVars, threadVars, mainVars, result >>

\* What the process prints and returns.  The unrestricted run of GetAllMethods
\* shows the methods the compiler builds, that of GetAllPassesForMethod the
\* passes it starts (or nothing that matches); which prefixes of them expose
\* the fault is the system under test's from then on.  A probe of Test exits
\* with any code and output that its cutoff's outcome allows.
ProcessRuns ==
  CASE caller = "GetAllMethods" ->
         { [run |-> r, sut |-> s] :
             r \in UNION { Runs(MethodList(n)) : n \in 0..MaxMethods }
                     \cup AdbFailedRuns,
             s \in UNION { [0..n -> BOOLEAN] : n \in 0..MaxMethods } }
    [] caller = "GetAllPassesForMethod" ->
         { [run |-> r, sut |-> s] :
             r \in UNION { Runs(p) : p \in ScrapedPassLists } \cup AdbFailedRuns,
             s \in UNION { [0..n -> BOOLEAN] : n \in 0..MaxPasses } }
    [] OTHER ->
         { [run |-> r, sut |-> << >>] : r \in Runs(<< >>) \cup AdbFailedRuns }

\* _RunCommandForOutputAndLog(cmd, env, logfile) as one step: Popen,
\* communicate, write the record to the logfile, return (output, err_output,
\* ret_code).  Its steps and its timer thread are taken one at a time by the
\* actions of SpecRun below.
RunCommandForOutputAndLog ==
  /\ pc = "Popen"
  /\ commands' = commands + 1
  /\ cache_cleared' = FALSE
  /\ log' = Written(log, CommandRecord(cmd))
  /\ printed' = printed
  /\ \E p \in ProcessRuns :
       /\ last_run' = p.run
       /\ CASE caller = "GetAllMethods" ->
                 /\ DOMAIN p.sut = 0..Len(p.run.err_output)
                 /\ sut_methods' = p.sut
                 /\ sut_passes' = sut_passes
            [] caller = "GetAllPassesForMethod" ->
                 /\ DOMAIN p.sut = 0..Len(DropNonPasses(p.run.err_output))
                 /\ sut_passes' = p.sut
                 /\ sut_methods' = sut_methods
            [] OTHER ->
                 /\ FaultShows(p.run) = ~SutPasses
                 /\ UNCHANGED sutVars
  /\ pc' = "returned"
  /\ UNCHANGED << bsVars, caller, search, listVars, fileVars, cmd, executed,
                  run_calls, invalidations, filterVars, configVars, threadVars,
                  result, error >>

\* ------------------------------------- _RunCommandForOutputAndLog, by steps
\* What a command in progress leaves alone.
callVars == << bsVars, caller, search, listVars, sutVars, fileVars, cmd, executed,
               run_calls, invalidations, filterVars, configVars, result, error >>

\* proc = Popen(cmd, ...); timer = Timer(timeout, proc.kill); timer.start()
StartProcess ==
  /\ pc = "Popen"
  /\ commands' = commands + 1
  /\ cache_cleared' = FALSE
  /\ proc' = "running" /\ returncode' = 0 - 1
  /\ timer' = "waiting" /\ timeouted' = FALSE
  /\ pc' = "communicate"
  /\ UNCHANGED << callVars, last_run, mainVars >>

\* The process ends on its own.
ProcessExits ==
  /\ proc = "running"
  /\ proc' = "exited"
  /\ UNCHANGED << callVars, pc, last_run, commands, cache_cleared, returncode,
                  timer, timeouted, mainVars >>

\* Timer thread: the interval is over and the timer was not cancelled, so it
\* calls proc.kill(), which ends a process that is still running.
TimerFires ==
  /\ timer = "waiting"
  /\ timer' = "fired"
  /\ proc' = IF proc = "running" THEN "killed" ELSE proc
  /\ UNCHANGED << callVars, pc, last_run, commands, cache_cleared, returncode,
                  timeouted, mainVars >>

\* Timer thread: proc.kill() has returned and the thread ends; from here on
\* timer.is_alive() is false.
TimerEnds ==
  /\ timer = "fired"
  /\ timer' = "finished"
  /\ UNCHANGED << callVars, pc, last_run, commands, cache_cleared, proc,
                  returncode, timeouted, mainVars >>

\* (output, err_output) = proc.communicate(): returns once the process has
\* ended, with what it wrote; proc.returncode is its exit code, or the
\* kill's.
CommunicateReturns ==
  /\ pc = "communicate" /\ proc \in { "exited", "killed" }
  /\ \E p \in ProcessRuns :
       /\ IF proc = "killed"
          THEN p.run.ret_code = KilledCode
          ELSE p.run.ret_code \in RetCodes
       /\ returncode' = p.run.ret_code
       /\ last_run' = [p.run EXCEPT !.ret_code = 0 - 1]
  /\ pc' = "is_alive"
  /\ UNCHANGED << callVars, commands, cache_cleared, proc, timer, timeouted,
                  mainVars >>

\* if timer.is_alive(): timer.cancel(); timeouted = False
\* else: timeouted = True
CheckTimer ==
  /\ pc = "is_alive"
  /\ IF timer \in { "waiting", "fired" }
     THEN /\ timer' = IF timer = "waiting" THEN "cancelled" ELSE timer
          /\ timeouted' = FALSE
     ELSE /\ timer' = timer
          /\ timeouted' = TRUE
  /\ pc' = "log"
  /\ UNCHANGED << callVars, last_run, commands, cache_cleared, proc, returncode,
                  mainVars >>

\* logfile.write('Command:\n{0}\nReturn code: {1}\n{2}{3}\n'.format(cmd,
\*   'TIMEOUT' if timeouted else proc.returncode, err_output, output))
\* ret_code = 1 if timeouted else proc.returncode
\* return (output, err_output, ret_code)
LogAndReturn ==
  /\ pc = "log"
  /\ log' = Written(log, CommandRecord(cmd))
  /\ last_run' = [last_run EXCEPT !.ret_code = IF timeouted THEN 1 ELSE returncode]
  /\ pc' = "returned"
  /\ UNCHANGED << callVars, commands, cache_cleared, threadVars, printed >>

\* ----------------------------------------------------------------- BugSearch
\* if faulty_method_idx == len(all_methods): return (None, None)
\* if faulty_method_idx == 0: raise FatalError(...)
\* faulty_method = all_methods[faulty_method_idx - 1]
\* all_passes = testable.GetAllPassesForMethod(faulty_method)
BugSearchAfterMethods ==
  /\ pc = "bs_done" /\ search = "methods"
  /\ faulty_method_idx' = start
  /\ IF NoBugFound(start, all_methods)
     THEN /\ result' = NoBug
          /\ pc' = "done"
          /\ UNCHANGED << error, compiled_methods_file, cmd, caller, run_calls >>
     ELSE IF FailsWithNoMethods(start)
     THEN /\ error' = OutsideCompiler
          /\ pc' = "raised"
          /\ UNCHANGED << result, compiled_methods_file, cmd, caller, run_calls >>
     ELSE \E pushed \in TransportOutcomes :
            IF pushed
            THEN /\ compiled_methods_file' = << ItemBefore(all_methods, start) >>
                 /\ cmd' = [compiled_methods |-> TRUE, passes_to_run |-> FALSE]
                 /\ caller' = "GetAllPassesForMethod"
                 /\ run_calls' = run_calls + 1
                 /\ pc' = RunCommandEntry(env_kind)
                 /\ UNCHANGED << result, error >>
            ELSE /\ error' = TransportError
                 /\ pc' = "raised"
                 /\ UNCHANGED << result, compiled_methods_file, cmd, caller, run_calls >>
  /\ UNCHANGED << bsVars, search, all_methods, all_passes, faulty_pass_idx, sutVars,
                  passes_to_run_file, last_run, executed, invalidations, commands,
                  cache_cleared, filterVars, configVars, threadVars, mainVars >>

\* if faulty_pass_idx == 0: return (faulty_method, None)
\* assert faulty_pass_idx != len(all_passes), "Method must fail for some passes."
\* faulty_pass = all_passes[faulty_pass_idx - 1]
\* return (faulty_method, faulty_pass)
BugSearchAfterPasses ==
  /\ pc = "bs_done" /\ search = "passes"
  /\ faulty_pass_idx' = start
  /\ IF start = 0
     THEN /\ result' = << ItemBefore(all_methods, faulty_method_idx), None >>
          /\ pc' = "done"
          /\ error' = error
     ELSE IF start = Len(all_passes)
     THEN /\ error' = AssertionFailed
          /\ pc' = "raised"
          /\ result' = result
     ELSE /\ result' = << ItemBefore(all_methods, faulty_method_idx),
                          ItemBefore(all_passes, start) >>
          /\ pc' = "done"
          /\ error' = error
  /\ UNCHANGED << bsVars, caller, search, all_methods, faulty_method_idx, all_passes,
                  sutVars, fileVars, cmd, last_run, executed, countVars, filterVars,
                  configVars, threadVars, mainVars >>

\* ---------------------------------------------------------------------- main
\* What main leaves alone.
searchVars == << bsVars, caller, search, listVars, sutVars, fileVars, cmd, last_run,
                executed, countVars, filterVars, configVars, threadVars >>

\* What main prints for the result of BugSearch.
ResultMessage(res) ==
  IF res = NoBug THEN "Couldn't find any bugs."
  ELSE IF res[2] = None THEN "Faulty method. Fails with just mandatory passes."
  ELSE "Faulty method and pass."

\* # Prepare environment: test_env = HostTestEnv(...) / DeviceTestEnv(...),
\* before the try.  Each constructor opens the logfile first; HostTestEnv
\* then reads ANDROID_HOST_OUT with GetEnvVariableOrError, DeviceTestEnv
\* makes its directories and pushes the classpath with check_call on adb.
\* What they raise leaves main.
MainPrepareEnvironment ==
  /\ pc = "main"
  /\ IF env_kind = "host"
     THEN \E is_set \in BOOLEAN :
            IF is_set
            THEN pc' = "try" /\ error' = error
            ELSE pc' = "propagated" /\ error' = EnvVariableUnset
     ELSE \E pushed \in TransportOutcomes :
            IF pushed
            THEN pc' = "try" /\ error' = error
            ELSE pc' = "propagated" /\ error' = TransportError
  /\ UNCHANGED << searchVars, mainVars, result >>

\* try: testable = Dex2OatWrapperTestable(...): its constructor makes the two
\* scratch files with test_env.CreateFile, an adb push on a device.
MainConstructTestable ==
  /\ pc = "try"
  /\ \E pushed \in TransportOutcomes :
       IF pushed
       THEN pc' = "BugSearch" /\ error' = error
       ELSE pc' = "raised" /\ error' = TransportError
  /\ UNCHANGED << searchVars, mainVars, result >>

\* except Exception, e: print("Error. Refer to logfile: ...");
\* test_env.logfile.write("Exception: ..."); raise
MainExcept ==
  /\ pc = "raised"
  /\ printed' = printed \cup { "Error. Refer to logfile" }
  /\ log' = Written(log, ExceptionRecord(error))
  /\ pc' = "propagated"
  /\ UNCHANGED << searchVars, result, error >>

\* # Report results: print the result, print("Logfile: ..."), sys.exit(0)
MainReport ==
  /\ pc = "done"
  /\ printed' = printed \cup { ResultMessage(result), "Logfile" }
  /\ pc' = "exit"
  /\ UNCHANGED << searchVars, log, result, error >>

\* ------------------------------------------------------------ specifications
Next ==
  \/ CallGetAllMethods
  \/ GetAllMethodsReturn
  \/ BinarySearchLoop
  \/ CallTestMethods
  \/ CallTestPasses
  \/ EmptyDexCache
  \/ RunCommandForOutputAndLog
  \/ TestReturn
  \/ BinarySearchUpdate
  \/ BugSearchAfterMethods
  \/ GetAllPassesForMethodReturn
  \/ BugSearchAfterPasses

Spec == Init /\ [][Next]_vars

NextSearch ==
  \/ BinarySearchLoop
  \/ TestPredicate
  \/ BinarySearchUpdate

\* main: the environment, the testable, BugSearch, the report.
NextMain ==
  \/ MainPrepareEnvironment
  \/ MainConstructTestable
  \/ Next
  \/ MainExcept
  \/ MainReport

SpecMain == InitMain /\ [][NextMain]_vars

\* The method search of BugSearch with _RunCommandForOutputAndLog taken step
\* by step, its timer thread running beside it.
NextRun ==
  \/ CallGetAllMethods
  \/ GetAllMethodsReturn
  \/ BinarySearchLoop
  \/ CallTestMethods
  \/ EmptyDexCache
  \/ StartProcess
  \/ ProcessExits
  \/ TimerFires
  \/ TimerEnds
  \/ CommunicateReturns
  \/ CheckTimer
  \/ LogAndReturn
  \/ TestReturn
  \/ BinarySearchUpdate

SpecRun == Init /\ [][NextRun]_vars

SpecSearch == InitSearch /\ [][NextSearch]_vars

\* BinarySearch run on its own with every call of test returning.
SpecSearchFair == SpecSearch /\ WF_vars(NextSearch)

NextFilter == ApplyFilterPasses

SpecFilter == InitFilter /\ [][NextFilter]_vars

\* ==================================================================== claims
Range(s) == { s[i] : i \in DOMAIN s }

\* The range BinarySearch was called on, [0, SearchN), when run on its own.
SearchN == Cardinality(DOMAIN pred)

\* pred is true below k and false from k on.
PredMonotone(k) == \A i \in DOMAIN pred : pred[i] = (i < k)

\* C1: for every N >= 0 and every predicate on [0, N) that is true below a
\* cutoff k in [0, N] and false from k on, BinarySearch(0, N, pred) returns k,
\* the boundary cutoffs k = 0 and k = N included.
C1_BinarySearchReturnsCutoff ==
  \A k \in 0..SearchN :
    (pc = "bs_done" /\ PredMonotone(k)) => start = k

\* A search over three indices whose predicate holds everywhere has returned N.
C1_Witness ==
  /\ pc = "bs_done" /\ SearchN = 3
  /\ PredMonotone(3) /\ start = 3

\* s is t with some elements left out, the rest in t's order.
IsSubsequence(s, t) ==
  \E f \in [1..Len(s) -> 1..Len(t)] :
    /\ \A i \in 1..Len(s) : s[i] = t[f[i]]
    /\ \A i, j \in 1..Len(s) : i < j => f[i] < f[j]

\* C8: FilterPasses(passes, cutoff), for a cutoff in [0, len(passes)], holds
\* every mandatory pass of passes and every pass at an index below the cutoff,
\* holds nothing else, and is a subsequence of passes; cutoff 0 gives exactly
\* the mandatory passes and cutoff len(passes) gives passes itself.
C8_FilterPassesKeepsMandatoryAndPrefix ==
  pc = "filtered" =>
    LET passes == filter_in.passes
        cutoff == filter_in.cutoff_idx
    IN /\ \A i \in 1..Len(passes) :
            passes[i] \in MANDATORY_PASSES => passes[i] \in Range(filter_out)
       /\ \A i \in 1..Len(passes) : i - 1 < cutoff => passes[i] \in Range(filter_out)
       /\ \A x \in Range(filter_out) :
            x \in MANDATORY_PASSES \/ \E i \in 1..cutoff : passes[i] = x
       /\ IsSubsequence(filter_out, passes)
       /\ cutoff = 0 =>
            filter_out = SelectSeq(passes, LAMBDA x : x \in MANDATORY_PASSES)
       /\ cutoff = Len(passes) => filter_out = passes

\* A mandatory pass beyond the cutoff is kept while an optional one is dropped.
C8_Witness ==
  /\ pc = "filtered"
  /\ filter_in = [passes |-> << "inliner", "dce", "pc_relative_fixups_x86" >>,
                  cutoff_idx |-> 1]
  /\ filter_out = << "inliner", "pc_relative_fixups_x86" >>

\* ------------------------------------------------------- claims on BugSearch

\* Test(all_methods[0:i]) passes for i < k and fails for i >= k, for every
\* prefix length i in [0, N].
MethodsMonotone(k) ==
  /\ all_methods # << >>
  /\ \A i \in DOMAIN sut_methods : sut_methods[i] = (i < k)

\* Test([faulty_method], FilterPasses(all_passes, j)) passes for j < k and
\* fails for j >= k, for every cutoff j in [0, M].
PassesMonotone(k) ==
  /\ search = "passes"
  /\ DOMAIN sut_passes = 0..Len(all_passes)
  /\ \A j \in DOMAIN sut_passes : sut_passes[j] = (j < k)

\* Stage two has begun: the pass list was asked for or a pass probe was run.
StageTwoEntered ==
  \/ caller = "GetAllPassesForMethod"
  \/ search = "passes"
  \/ \E r \in executed : r.run_passes

\* C2: BugSearch returns (None, None) only if the test passes with all methods
\* compiled: when Test on the full method list fails, the result is not
\* (None, None).
C2_NoBugOnlyIfFullListPasses ==
  (pc = "done" /\ result = NoBug) => sut_methods[Len(all_methods)]

\* C3: with probes monotone in the pass cutoff and the implicated method
\* failing with all M of its passes, the pass bisection does not return M and
\* the assertion "Method must fail for some passes." does not fire.
C3_AssertionNeverFires ==
  ((\E k \in 0..Len(all_passes) : PassesMonotone(k)) /\ ~sut_passes[Len(all_passes)])
    => error # AssertionFailed

\* The passes of all_passes below position n, and the mandatory ones after it.
UpTo(passes, n) ==
  Prefix(passes, n)
    \o SelectSeq(SubSeq(passes, n + 1, Len(passes)), LAMBDA x : x \in MANDATORY_PASSES)

\* C4: when BugSearch returns a method and a pass, a probe of that method with
\* the passes up to and excluding the returned pass (and the mandatory ones)
\* was run and passed, and one with the passes up to and including it was run
\* and failed; and a probe of the method prefix ending before the returned
\* method passed, and one of the prefix ending with it failed.  No assumption
\* on the probes' outcomes.
C4_ResultBracketedByProbes ==
  (pc = "done" /\ result[1] # None /\ result[2] # None) =>
    /\ \E j \in 1..Len(all_passes) :
         /\ all_passes[j] = result[2]
         /\ \E r \in executed :
              /\ r.compiled_methods = << result[1] >> /\ r.run_passes
              /\ r.passes_to_run = UpTo(all_passes, j - 1) /\ r.passed
         /\ \E r \in executed :
              /\ r.compiled_methods = << result[1] >> /\ r.run_passes
              /\ r.passes_to_run = UpTo(all_passes, j) /\ ~r.passed
    /\ \E k \in 1..Len(all_methods) :
         /\ all_methods[k] = result[1]
         /\ \E r \in executed :
              /\ ~r.run_passes /\ r.compiled_methods = Prefix(all_methods, k - 1)
              /\ r.passed
         /\ \E r \in executed :
              /\ ~r.run_passes /\ r.compiled_methods = Prefix(all_methods, k)
              /\ ~r.passed

\* A (method, pass) result on probes that are not monotone in the pass cutoff.
C4_Witness ==
  /\ pc = "done" /\ result[1] # None /\ result[2] # None
  /\ Len(all_passes) = 3
  /\ \A k \in 0..4 : ~PassesMonotone(k)

\* C5: with monotone probes, method cutoff k1 in (0, N) and pass cutoff j1 in
\* (0, M), and no mandatory pass in the list, BugSearch ends with
\* (methods[k1 - 1], passes[j1 - 1]) unless a transport call fails first.
C5_MonotoneProbesGiveCutoffs ==
  \A k1 \in 1..(Len(all_methods) - 1), j1 \in 1..(Len(all_passes) - 1) :
    ( /\ MethodsMonotone(k1) /\ PassesMonotone(j1)
      /\ Range(all_passes) \cap MANDATORY_PASSES = { }
      /\ pc \in { "done", "raised" } )
    => \/ pc = "done" /\ result = << all_methods[k1], all_passes[j1] >>
       \/ pc = "raised" /\ error = TransportError

\* Methods m0..m3 failing from prefix length 2 on, passes inliner, dce
\* failing from cutoff 1 on: m1 and inliner are reported.
C5_Witness ==
  /\ pc = "done"
  /\ all_methods = << "m0", "m1", "m2", "m3" >> /\ MethodsMonotone(2)
  /\ all_passes = << "inliner", "dce" >> /\ PassesMonotone(1)
  /\ result = << "m1", "inliner" >>

\* C6: when Test passes for the full method list and the probes are monotone
\* in the method prefix, BugSearch never enters stage two
\* (GetAllPassesForMethod is not called, no probe carries a pass list) and
\* any result it returns is the no-bug one.
C6_FullListPassesMeansNoBug ==
  ( /\ all_methods # << >> /\ sut_methods[Len(all_methods)]
    /\ \E k \in 0..(Len(all_methods) + 1) : MethodsMonotone(k) )
  => /\ ~StageTwoEntered
     /\ pc = "done" => result = NoBug
     /\ pc = "raised" => error = TransportError

\* The no-bug result on three methods that all pass.
C6_Witness ==
  /\ pc = "done" /\ result = NoBug
  /\ Len(all_methods) = 3 /\ MethodsMonotone(4)
  /\ Cardinality(executed) = 2

\* C7 as stated: when Test(all_methods) and Test([]) both fail, BugSearch
\* returns no result and never starts stage two, and when it ends without a
\* transport failure it ends in the "outside compiler" FatalError.
C7_BothEndsFailMeansOutsideCompiler ==
  ( /\ all_methods # << >>
    /\ ~sut_methods[Len(all_methods)] /\ ~sut_methods[0] )
  => /\ ~StageTwoEntered
     /\ pc # "done"
     /\ pc = "raised" => error \in { OutsideCompiler, TransportError }

\* C7 amended: the same, for probes that are monotone in the method prefix.
C7_MonotoneAllFailMeansOutsideCompiler ==
  MethodsMonotone(0)
  => /\ ~StageTwoEntered
     /\ pc # "done"
     /\ pc = "raised" => error \in { OutsideCompiler, TransportError }

\* Three methods, every prefix failing: the FatalError after two probes.
C7_Witness ==
  /\ pc = "raised" /\ error = OutsideCompiler
  /\ Len(all_methods) = 3 /\ MethodsMonotone(0)
  /\ Cardinality(executed) = 2

\* C9: Test returns true exactly when the exit code is non-zero or the output
\* equals the reference output: a non-zero exit passes whatever the output,
\* and without a reference output only a non-zero exit passes.
C9_TestScoresExitCodeOrOutput ==
  pc = "bs_update" =>
    /\ test_res = (last_run.ret_code # 0 \/ last_run.output = correct_output)
    /\ last_run.ret_code # 0 => test_res
    /\ correct_output = None => (test_res = (last_run.ret_code # 0))
    /\ \E r \in executed : r.idx = mid /\ r.stage = search /\ r.passed = test_res

\* A run that exits non-zero with an output unlike the reference is scored as
\* passing.
C9_Witness ==
  /\ pc = "bs_update" /\ correct_output = "ok"
  /\ last_run.ret_code = 1 /\ last_run.output = "bad"
  /\ test_res

\* C10: in both environments each RunCommand makes one dex-cache invalidation,
\* finished before the process starts; no command runs without an
\* invalidation since the previous command.
C10_OneInvalidationBeforeEachCommand ==
  /\ pc = "EmptyDexCache" =>
       invalidations = run_calls - 1 /\ commands = run_calls - 1
  /\ pc = "Popen" =>
       cache_cleared /\ invalidations = run_calls /\ commands = run_calls - 1
  /\ pc \notin { "EmptyDexCache", "Popen" } =>
       /\ invalidations = run_calls
       /\ commands = run_calls \/ (pc = "raised" /\ error = TransportError)
       /\ ~cache_cleared \/ pc = "raised"

\* The third command on a device is about to start on a cleared cache.
C10_Witness ==
  /\ pc = "Popen" /\ env_kind = "device"
  /\ run_calls = 3 /\ invalidations = 3 /\ commands = 2 /\ cache_cleared

\* ---------------------------------------------------------------------- C15
\* The probes BinarySearch has made so far, with the values they returned.
Probed(i, value) == \E r \in executed : r.idx = i /\ r.passed = value

\* C15: for any predicate, monotone or not, the result r of
\* BinarySearch(0, n, test) is the cutoff of the probes it made: when r > 0,
\* test(r - 1) was called and returned true; when r < n, test(r) was called
\* and returned false.
C15_ResultIsCutoffOfVisitedProbes ==
  pc = "bs_done" =>
    /\ start > 0 => Probed(start - 1, TRUE)
    /\ start < SearchN => Probed(start, FALSE)

\* A search over a predicate that is not monotone ends strictly inside.
C15_Witness ==
  /\ pc = "bs_done" /\ 0 < start /\ start < SearchN
  /\ ~PredMonotone(start)
  /\ Probed(start - 1, TRUE) /\ Probed(start, FALSE)

\* ---------------------------------------------------------------------- C16
\* C16: in every state of BinarySearch(0, n, test) 0 <= start <= end <= n;
\* every probed index mid lies in [start, end); each iteration either raises
\* start and keeps end or lowers end and keeps start, and no step ever lowers
\* start or raises end; the value returned lies in [0, n].
C16_BoundsStayOrderedAndOnlyNarrow ==
  /\ [](0 <= start /\ start <= end /\ end <= SearchN)
  /\ [](pc \in { "test", "bs_update" } => start <= mid /\ mid < end)
  /\ [](pc = "bs_done" => 0 <= start /\ start <= SearchN)
  /\ [][start' >= start /\ end' <= end]_vars
  /\ [][pc = "bs_update" =>
         \/ start' > start /\ end' = end
         \/ end' < end /\ start' = start]_vars

\* Both bounds have moved, and a probe inside them is being made.
C16_Witness ==
  /\ search = "pure" /\ pc = "bs_update"
  /\ 0 < start /\ end < SearchN /\ start <= mid /\ mid < end

\* ---------------------------------------------------------------------- C17
\* The least k with 2^k >= n.
CeilLog2(n) == CHOOSE k \in 0..n : 2^k >= n /\ \A j \in 0..(k - 1) : 2^j < n

\* C17: BinarySearch(0, n, test) terminates for every predicate when each
\* probe returns: the width end - start strictly decreases on every
\* iteration, no index is probed twice, and at most ceil(log2(n + 1)) probes
\* are made.
C17_TerminatesWithinLogProbes ==
  /\ <>(pc = "bs_done")
  /\ [][pc = "bs_update" => end' - start' < end - start]_vars
  /\ [](pc = "test" => \A r \in executed : r.idx # mid)
  /\ [](Cardinality(executed) <= CeilLog2(SearchN + 1))

\* A search over the longest list has ended after as many probes as the
\* bound allows.
C17_Witness ==
  /\ search = "pure" /\ pc = "bs_done" /\ SearchN = MaxN
  /\ Cardinality(executed) = CeilLog2(SearchN + 1)

\* ---------------------------------------------------------------------- C18
\* A probe that compiled just the method with just the mandatory passes of
\* the scraped list ran and failed.
MandatoryOnlyProbeFailed(method) ==
  \E r \in executed :
    /\ r.run_passes /\ r.compiled_methods = << method >>
    /\ r.passes_to_run = FilterPasses(all_passes, 0)
    /\ ~r.passed

\* C18: BugSearch returns (method, None) only after a probe that ran the
\* method with exactly the mandatory passes was executed and failed, also
\* when the scraped pass list is empty once the non-pass names are dropped.
C18_MethodOnlyResultHasFailedMandatoryProbe ==
  (pc = "done" /\ result # NoBug /\ result[2] = None) =>
    MandatoryOnlyProbeFailed(result[1])

\* ---------------------------------------------------------------------- C13
\* C13: a probe whose process the timeout timer killed gets the exit code 1
\* from RunCommand and is found timed out, Test scores it as passing, and no
\* error is raised: the search goes on to its update.
C13_KilledProbeReturnsOneAndPasses ==
  /\ (pc = "returned" /\ caller = "Test" /\ proc = "killed") =>
       timeouted /\ last_run.ret_code = 1
  /\ (pc = "bs_update" /\ proc = "killed") =>
       test_res /\ error = None

\* ---------------------------------------------------------------------- C14
\* The states in which _RunCommandForOutputAndLog has started its command and
\* not yet written its record.
RunInProgress == pc \in { "communicate", "is_alive", "log" }

IsPrefix(s, t) == Len(s) <= Len(t) /\ SubSeq(t, 1, Len(s)) = s

\* C14: every RunCommand has appended the record of its command to the log
\* when it returns; the log holds one record for each command run (one fewer
\* while a command is in progress), and a record once written is never
\* removed or overwritten.
C14_OneLogRecordPerCommand ==
  /\ [](Len(log) = IF RunInProgress THEN commands - 1 ELSE commands)
  /\ [](\A i \in DOMAIN log : log[i].kind = "Command")
  /\ [](pc = "returned" => log # << >> /\ log[Len(log)] = CommandRecord(cmd))
  /\ [][IsPrefix(log, log')]_vars

\* A second command, one that timed out, has returned with its record
\* written after the first.
C14_Witness ==
  /\ pc = "returned" /\ caller = "Test" /\ timeouted
  /\ Len(log) = 2 /\ commands = 2
  /\ log[1] = CommandRecord(NoCmd) /\ log[2] = CommandRecord(cmd)

\* ---------------------------------------------------------------------- C19
\* C19: whatever the interleaving of the timer thread with the process's
\* exit, a command is found timed out (TIMEOUT written, 1 returned) exactly
\* when the timer killed its process; a process that exited on its own is
\* never found timed out and its own exit code is returned.
C19_TimeoutReportedIffTimerKilled ==
  pc = "returned" =>
    /\ timeouted <=> proc = "killed"
    /\ timeouted => last_run.ret_code = 1
    /\ proc = "exited" => ~timeouted /\ last_run.ret_code = returncode

\* ---------------------------------------------------------------------- C12
\* C12: on a device, a failure of the adb invocation that runs a command ends
\* the session like a failed push, mkdir or cache clearing does: once it has
\* returned, the only step taken is the raising of an error, so the search
\* makes no further probe and BugSearch reports no result.
C12_AdbFailureAbortsSession ==
  /\ last_run.adb_failed => pc \in { "returned", "raised" }
  /\ (pc = "raised" /\ error = TransportError) => result = << >>

\* ---------------------------------------------------------------------- C11
\* C11: on every path through main the logfile path is printed, and an error
\* that leaves main, one raised while the environment is constructed
\* included, was written to the log before it propagated.
C11_FatalErrorsLoggedAndLogfilePrinted ==
  /\ pc = "propagated" =>
       /\ "Error. Refer to logfile" \in printed
       /\ \E i \in DOMAIN log : log[i] = ExceptionRecord(error)
  /\ pc = "exit" => "Logfile" \in printed

====
